---- MODULE Spec2Model ----
(***************************************************************************)
(* bitBeam: an ephemeral file-delivery service (src/src/api.rs).           *)
(*                                                                         *)
(* The three handlers upload, download_file and register_user are async    *)
(* functions run as independent tasks over a shared database pool and a    *)
(* shared data directory.  Every `.await` on a database query or on a      *)
(* filesystem call is a point where another task may run, so each handler  *)
(* is modelled as a sequence of atomic steps, one per query / filesystem   *)
(* call, with the synchronous code that follows it up to the next await.   *)
(***************************************************************************)
EXTENDS Integers, Sequences, FiniteSets, TLC

\* ------------------------------------------------------------------ bounds
NumProcs   == 2     \* request tasks that may be in flight at the same time
MaxDraws   == 3     \* 128-bit random identifiers drawn over a run
MaxFaults  == 1     \* injected database / filesystem failures over a run
MaxBodyLen == 1     \* length of an uploaded body

Procs == 1..NumProcs

\* ------------------------------------------------------- values and inputs
\* An optional value (Rust Option / a header that may be absent): <<>> or <<v>>.
None    == <<>>
Some(v) == <<v>>

\* A header value whose bytes are not visible ASCII: HeaderValue::to_str fails.
NonAscii == "\\xff"

\* hv.to_str().ok(): the string of a header value, None for a non-ASCII one.
to_str(hv) == IF hv = NonAscii THEN None ELSE Some(hv)

\* headers.get(h).and_then(|hv| hv.to_str().ok()).unwrap_or("unknown")
OrUnknown(h) == IF h = None THEN "unknown"
                ELSE IF to_str(h[1]) = None THEN "unknown" ELSE to_str(h[1])[1]

\* match headers.get(h) { Some(hv) => hv.to_str().unwrap_or("unknown"), None => return 400 }
\* The value of a header that is present.
RequiredStr(h) == IF to_str(h[1]) = None THEN "unknown" ELSE to_str(h[1])[1]

\* Uuid::from_u128(rng.random::<u128>()).to_string(): the text of the n-th draw.
\* Draws are 128-bit random numbers; two draws are taken to be different.
UuidStr(n) == "uuid-" \o ToString(n)

Uuids == {UuidStr(n) : n \in 1..MaxDraws}

\* The text of a download_limit header, as a sequence of characters.
Digits == {"0", "1", "2", "3", "4", "5", "6", "7", "8", "9"}
DigitVal(c) == CASE c = "0" -> 0 [] c = "1" -> 1 [] c = "2" -> 2 [] c = "3" -> 3
                 [] c = "4" -> 4 [] c = "5" -> 5 [] c = "6" -> 6 [] c = "7" -> 7
                 [] c = "8" -> 8 [] c = "9" -> 9

I32Max == 2147483647
I32Min == (0 - I32Max) - 1

RECURSIVE PosDigits(_, _)
\* The digits s appended to acc >= 0 (checked_mul, checked_add): None on overflow.
PosDigits(s, acc) ==
    IF s = <<>> THEN Some(acc)
    ELSE LET d == DigitVal(Head(s))
         IN IF acc > (I32Max - d) \div 10 THEN None
            ELSE PosDigits(Tail(s), 10 * acc + d)

RECURSIVE NegDigits(_, _)
\* The digits s appended to acc <= 0 (checked_mul, checked_sub): None on overflow.
NegDigits(s, acc) ==
    IF s = <<>> THEN Some(acc)
    ELSE LET d == DigitVal(Head(s))
         IN IF acc < (I32Min + d + 9) \div 10 THEN None
            ELSE NegDigits(Tail(s), 10 * acc - d)

\* s.parse::<i32>().ok(): an optional sign, then at least one digit, in range.
ParseI32(s) ==
    LET neg  == s # <<>> /\ Head(s) = "-"
        body == IF s # <<>> /\ Head(s) \in {"-", "+"} THEN Tail(s) ELSE s
    IN IF body = <<>> \/ \E i \in 1..Len(body) : body[i] \notin Digits THEN None
       ELSE IF neg THEN NegDigits(body, 0) ELSE PosDigits(body, 0)

\* headers.get("download_limit").and_then(to_str).and_then(parse::<i32>).unwrap_or(1)
DefaultLimit == 1
DownloadLimitOf(h) ==
    IF h = None THEN DefaultLimit
    ELSE IF \E i \in 1..Len(h[1]) : h[1][i] = NonAscii THEN DefaultLimit
    ELSE IF ParseI32(h[1]) = None THEN DefaultLimit
    ELSE ParseI32(h[1])[1]

\* Request inputs.
\* The key header of an upload: absent, not ASCII, or a text: a key a
\* registration has returned, or some other text (keys cannot be guessed).
KeyHeaders(issued)   == {None, Some(NonAscii), Some("no-such-key")} \cup {Some(k) : k \in issued}
\* A body of MaxBodyLen bytes, each of value b.
Body(b) == [i \in 1..MaxBodyLen |-> b]

\* An upload request after its key header: the optional headers content-type,
\* file_name and download_limit (each absent, not ASCII, or a text) and the body.
Request(ct, name, limit, body) ==
    [content_type |-> ct, file_name |-> name, download_limit |-> limit, body |-> body]
UploadRequests ==
    { Request(None,               None,           None,               <<>>),
      Request(Some("text/plain"), Some("a.txt"),  Some(<<"2">>),      Body(255)),
      Request(Some(NonAscii),     Some(NonAscii), Some(<<"x">>),      Body(0)),
      Request(Some("text/plain"), None,           Some(<<"0">>),      Body(0)),
      Request(None,               Some("a.txt"),  Some(<<"-", "1">>), Body(255)) }
Bodies == {r.body : r \in UploadRequests}
UsernameHeaders      == {None, Some("alice"), Some("bob")}
PasswordHeaders      == {None, Some("pw")}

\* ------------------------------------------------------------------- state
VARIABLES
    allow_register, \* config.allow_register (main.rs, BITBEAM_ALLOW_REGISTER)
    users,          \* table users:  key -> [username, password]
    files,          \* table files:  id  -> row
    blobs,          \* data directory: file name (id) -> bytes
    draws,          \* number of random identifiers drawn so far
    pc,             \* per task: the await point it is at ("idle": no request)
    loc,            \* per task: the local variables of its handler
    last,           \* the response returned in the latest step, if any
    uploaded,       \* history: id -> the request of the upload that created it
    served,         \* history: id -> number of 200 responses of download_file
    incremented,    \* history: id -> number of completed UPDATE steps of download_file
    faultsLeft,     \* environment: failures that may still be injected
    maxInFlight     \* environment: requests that may be in flight together

vars == <<allow_register, users, files, blobs, draws, pc, loc, last,
          uploaded, served, incremented, faultsLeft, maxInFlight>>


\* ----------------------------------------------------------------- storage
Empty == [x \in {} |-> {}]

\* An INSERT whose content_type and file_name binds are in each other's place.
MutNewFile(content_type, download_limit, file_name, owner, body) ==
    [content_type   |-> file_name,
     download_limit |-> download_limit,
     download_count |-> 0,
     file_size      |-> Len(body),
     file_name      |-> content_type,
     owner          |-> owner]

\* The row bound by INSERT INTO files (download_count = 0, file_size = body.len()).
\* upload_time and download_url are immutable columns no operation reads back.
NewFile(content_type, download_limit, file_name, owner, body) ==
    [content_type   |-> content_type,
     download_limit |-> download_limit,
     download_count |-> 0,
     file_size      |-> Len(body),
     file_name      |-> file_name,
     owner          |-> owner]

\* INSERT INTO files ... : id is the primary key.
InsertFile(tbl, id, row) == tbl @@ (id :> row)

\* A counter update that counts down.
MutNextCount(c) == c - 1

\* SET download_count = download_count + 1
NextCount(c) == c + 1

\* An UPDATE that is lost: the row keeps its counter.
MutIncrementCount(tbl, id) == tbl

\* UPDATE files SET download_count = download_count + 1 WHERE id = ?
\* (an UPDATE that matches no row succeeds and changes nothing)
IncrementCount(tbl, id) ==
    IF id \in DOMAIN tbl
    THEN [tbl EXCEPT ![id].download_count = NextCount(@)]
    ELSE tbl

\* An UPDATE that returns Err and has incremented the row all the same.
MutFailedUpdate(tbl, id) == IncrementCount(tbl, id)

\* The UPDATE returned Err: the statement was not applied.
FailedUpdate(tbl, id) == tbl

\* DELETE FROM files WHERE id = ?  /  fs::remove_file
Without(f, id) == [x \in DOMAIN f \ {id} |-> f[x]]

\* A remove_file that reports success and leaves the file in place.
MutRemoveFile(dir, id) == dir

\* fs::remove_file(&file_path)
RemoveFile(dir, id) == Without(dir, id)

\* DELETE FROM files WHERE id = ?
DeleteRow(tbl, id) == Without(tbl, id)

\* A write that empties the rest of the data directory.
MutWriteBlob(dir, id, body) == [x \in {id} |-> body]

\* fs::write(&file_path, &body): creates or truncates the file, writes body.
WriteBlob(dir, id, body) == [x \in DOMAIN dir \cup {id} |-> IF x = id THEN body ELSE dir[x]]

\* What a failed fs::write may leave: nothing new, or a truncated file.
FailedWrites(dir, id, body) ==
    {dir} \cup {WriteBlob(dir, id, SubSeq(body, 1, n)) : n \in 0..(Len(body) - 1)}

\* fs::read(&file_path)
ReadBlob(dir, id) == dir[id]

\* if (file.download_count) >= file.download_limit  -- file is the row as selected
ExpiryReached(file) == file.download_count >= file.download_limit

\* The stored counter of the row stands exactly at its limit.
LimitReached(tbl, id) ==
    id \in DOMAIN tbl /\ tbl[id].download_count = tbl[id].download_limit

\* SELECT * FROM users WHERE username = ?  (fetch_one: Ok iff a row matches)
UsernameTaken(tbl, username) == \E k \in DOMAIN tbl : tbl[k].username = username

\* --------------------------------------------------------------- responses
NoBytes == <<>>
Resp(op, status, msg) ==
    [op |-> op, status |-> status, msg |-> msg, uuid |-> "", bytes |-> NoBytes,
     content_type |-> "", file_name |-> "", file_size |-> 0, username |-> ""]

\* No handler returned in the latest step.
NoResp == Resp("none", 0, "")

\* Json(uploaded_file)
UploadOk(id, row) ==
    [Resp("upload", 200, "") EXCEPT !.uuid = id, !.content_type = row.content_type,
        !.file_name = row.file_name, !.file_size = row.file_size,
        !.username = row.owner]

\* 200 with Content-Type, Content-Length, filename headers and the bytes as body
DownloadOk(uuid, file, file_bytes) ==
    [Resp("download", 200, "") EXCEPT !.uuid = uuid, !.bytes = file_bytes,
        !.content_type = file.content_type, !.file_name = file.file_name,
        !.file_size = file.file_size]

DownloadErr(uuid, status, msg) == [Resp("download", status, msg) EXCEPT !.uuid = uuid]

\* Json({"key": key, "username": username})
RegisterOk(key, username) ==
    [Resp("register", 200, "") EXCEPT !.uuid = key, !.username = username]

\* ------------------------------------------------------------- task locals
\* exhausts is history: whether the task's own UPDATE brought download_count
\* to download_limit (the handler itself never learns the new value).
NoLocals == [key |-> "", id |-> "", owner |-> "", body |-> NoBytes,
             file |-> None, file_bytes |-> NoBytes, exhausts |-> FALSE,
             username |-> "", password |-> ""]

InFlight == {p \in Procs : pc[p] # "idle"}
\* Tasks are anonymous: a new request takes the first idle task.
CanStart(p) ==
    /\ pc[p] = "idle"
    /\ \A q \in Procs : q < p => pc[q] # "idle"
    /\ Cardinality(InFlight) < maxInFlight

\* Identifiers that requests already in flight will still draw.
PendingDraws == Cardinality({p \in Procs : pc[p] = "u_auth"})
CanDraw == draws + PendingDraws < MaxDraws

\* The outcomes of one database or filesystem call: TRUE it succeeds, FALSE the
\* environment fails it.
Outcomes == IF faultsLeft > 0 THEN {TRUE, FALSE} ELSE {TRUE}
Spend(ok) == faultsLeft' = IF ok THEN faultsLeft ELSE faultsLeft - 1

\* The handler of task p returns response r.
Return(p, r) ==
    /\ pc'   = [pc EXCEPT ![p] = "idle"]
    /\ loc'  = [loc EXCEPT ![p] = NoLocals]
    /\ last' = r

\* The handler of task p moves on to await point at with locals l.
Goto(p, at, l) ==
    /\ pc'   = [pc EXCEPT ![p] = at]
    /\ loc'  = [loc EXCEPT ![p] = l]
    /\ last' = NoResp

\* The users table of a database kept from an earlier run of the server, in
\* which alice registered and got the first key drawn.
EarlierUsers == UuidStr(1) :> [username |-> "alice", password |-> "pw"]

\* The state after main has set up the tables and the data directory: CREATE
\* TABLE IF NOT EXISTS keeps the rows of an earlier run, and allow_register is
\* read from the environment of this run.
Started ==
    /\ allow_register \in BOOLEAN
    /\ \/ users = Empty /\ draws = 0
       \/ users = EarlierUsers /\ draws = 1
    /\ files = Empty
    /\ blobs = Empty
    /\ pc = [p \in Procs |-> "idle"]
    /\ loc = [p \in Procs |-> NoLocals]
    /\ last = NoResp
    /\ uploaded = Empty
    /\ served = [u \in Uuids |-> 0]
    /\ incremented = [u \in Uuids |-> 0]

Init == Started /\ faultsLeft = MaxFaults /\ maxInFlight = NumProcs


\* ------------------------------------------------------------------ upload
\* A key header handled like the optional headers: "unknown" when absent.
MutKeyOf(key_hdr) == Some(OrUnknown(key_hdr))

\* let key = match headers.get("key") { Some(hv) => ..., None => return 400 }
KeyOf(key_hdr) == IF key_hdr = None THEN None ELSE Some(RequiredStr(key_hdr))

\* upload with key header key_hdr, to its first await: the key is required.
UploadRequest(p, key_hdr) ==
    /\ CanStart(p)
    /\ CanDraw
    /\ IF KeyOf(key_hdr) = None
       THEN Return(p, Resp("upload", 400, "Key header not supplied"))
       ELSE Goto(p, "u_auth", [NoLocals EXCEPT !.key = KeyOf(key_hdr)[1]])
    /\ UNCHANGED <<allow_register, users, files, blobs, draws, uploaded, served, incremented,
                   faultsLeft, maxInFlight>>

UploadStart(p) == \E key_hdr \in KeyHeaders(DOMAIN users) : UploadRequest(p, key_hdr)

\* SELECT * FROM users WHERE key = ? (fetch_one); then the id is drawn.
UploadAuth(p) ==
    /\ pc[p] = "u_auth"
    /\ \E ok \in Outcomes :
         /\ Spend(ok)
         /\ IF ok /\ loc[p].key \in DOMAIN users
            THEN /\ draws' = draws + 1
                 /\ Goto(p, "u_mkdir", [loc[p] EXCEPT
                                          !.owner = users[loc[p].key].username,
                                          !.id = UuidStr(draws + 1)])
            ELSE /\ draws' = draws
                 /\ Return(p, Resp("upload", 500, "Your key is not valid"))
    /\ UNCHANGED <<allow_register, users, files, blobs, uploaded, served, incremented, maxInFlight>>

\* fs::create_dir_all(dir)
UploadMkdir(p) ==
    /\ pc[p] = "u_mkdir"
    /\ \E ok \in Outcomes :
         /\ Spend(ok)
         /\ IF ok
            THEN Goto(p, "u_write", loc[p])
            ELSE Return(p, Resp("upload", 500, "Directory creation error"))
    /\ UNCHANGED <<allow_register, users, files, blobs, draws, uploaded, served, incremented,
                   maxInFlight>>

\* fs::write(&file_path, &body).  The request is an immutable argument of the
\* handler: its body is drawn here, where the handler first uses it.
UploadWrite(p) ==
    /\ pc[p] = "u_write"
    /\ \E body \in Bodies, ok \in Outcomes :
         /\ Spend(ok)
         /\ IF ok
            THEN /\ blobs' = WriteBlob(blobs, loc[p].id, body)
                 /\ Goto(p, "u_insert", [loc[p] EXCEPT !.body = body])
            ELSE /\ blobs' \in FailedWrites(blobs, loc[p].id, body)
                 /\ Return(p, Resp("upload", 500, "File write error"))
    /\ UNCHANGED <<allow_register, users, files, draws, uploaded, served, incremented, maxInFlight>>

\* INSERT INTO files ... with the values of the optional request headers
\* (api.rs:125-142), drawn here, where the handler first uses them, among the
\* requests that carry the body already written.
UploadInsertWith(p, hdrs) ==
    /\ pc[p] = "u_insert"
    /\ hdrs.body = loc[p].body
    /\ \E ok \in Outcomes :
         LET id  == loc[p].id
             row == NewFile(OrUnknown(hdrs.content_type),
                            DownloadLimitOf(hdrs.download_limit),
                            OrUnknown(hdrs.file_name), loc[p].owner, loc[p].body)
         IN /\ Spend(ok)
            /\ IF ok /\ id \notin DOMAIN files
               THEN /\ files' = InsertFile(files, id, row)
                    /\ uploaded' = uploaded @@
                          (id :> [body |-> loc[p].body, content_type |-> hdrs.content_type,
                                  download_limit |-> row.download_limit])
                    /\ Return(p, UploadOk(id, row))
               ELSE /\ UNCHANGED <<files, uploaded>>
                    /\ Return(p, Resp("upload", 500, "Database insert error"))
    /\ UNCHANGED <<allow_register, users, blobs, draws, served, incremented, maxInFlight>>

UploadInsert(p) == \E hdrs \in UploadRequests : UploadInsertWith(p, hdrs)

\* ----------------------------------------------------------- download_file
\* download_file, to its first await: the blob must exist in the data directory.
DownloadRequest(p, uuid) ==
    /\ CanStart(p)
    /\ IF uuid \notin DOMAIN blobs
       THEN Return(p, DownloadErr(uuid, 404, "File not found"))
       ELSE Goto(p, "d_select", [NoLocals EXCEPT !.id = uuid])
    /\ UNCHANGED <<allow_register, users, files, blobs, draws, uploaded, served, incremented,
                   faultsLeft, maxInFlight>>

DownloadStart(p) == \E uuid \in Uuids : DownloadRequest(p, uuid)

\* SELECT * FROM files WHERE id = ? (fetch_one)
DownloadSelect(p) ==
    /\ pc[p] = "d_select"
    /\ \E ok \in Outcomes :
         /\ Spend(ok)
         /\ IF ok /\ loc[p].id \in DOMAIN files
            THEN Goto(p, "d_update", [loc[p] EXCEPT !.file = Some(files[loc[p].id])])
            ELSE Return(p, DownloadErr(loc[p].id, 500, "Database select error"))
    /\ UNCHANGED <<allow_register, users, files, blobs, draws, uploaded, served, incremented,
                   maxInFlight>>

\* UPDATE files SET download_count = download_count + 1 WHERE id = ?
DownloadUpdate(p) ==
    /\ pc[p] = "d_update"
    /\ \E ok \in Outcomes :
         /\ Spend(ok)
         /\ IF ok
            THEN /\ files' = IncrementCount(files, loc[p].id)
                 /\ incremented' = [incremented EXCEPT ![loc[p].id] = @ + 1]
                 /\ Goto(p, "d_read",
                         [loc[p] EXCEPT !.exhausts =
                              LimitReached(IncrementCount(files, loc[p].id), loc[p].id)])
            ELSE /\ files' = FailedUpdate(files, loc[p].id)
                 /\ incremented' = incremented
                 /\ Return(p, DownloadErr(loc[p].id, 500, "Database update error"))
    /\ UNCHANGED <<allow_register, users, blobs, draws, uploaded, served, maxInFlight>>

\* fs::read(&file_path); then the expiry test on the selected row; a file that
\* is not expired is returned at once.
DownloadRead(p) ==
    /\ pc[p] = "d_read"
    /\ \E ok \in Outcomes :
         LET uuid == loc[p].id
             file == loc[p].file[1]
         IN /\ Spend(ok)
            /\ IF ok /\ uuid \in DOMAIN blobs
               THEN IF ExpiryReached(file)
                    THEN /\ Goto(p, "d_rmfile",
                                 [loc[p] EXCEPT !.file_bytes = ReadBlob(blobs, uuid)])
                         /\ served' = served
                    ELSE /\ Return(p, DownloadOk(uuid, file, ReadBlob(blobs, uuid)))
                         /\ served' = [served EXCEPT ![uuid] = @ + 1]
               ELSE /\ Return(p, DownloadErr(uuid, 500, "File read error"))
                    /\ served' = served
    /\ UNCHANGED <<allow_register, users, files, blobs, draws, uploaded, incremented,
                   maxInFlight>>

\* fs::remove_file(&file_path)
DownloadRemoveFile(p) ==
    /\ pc[p] = "d_rmfile"
    /\ \E ok \in Outcomes :
         /\ Spend(ok)
         /\ IF ok /\ loc[p].id \in DOMAIN blobs
            THEN /\ blobs' = RemoveFile(blobs, loc[p].id)
                 /\ Goto(p, "d_delrow", loc[p])
            ELSE /\ blobs' = blobs
                 /\ Return(p, DownloadErr(loc[p].id, 500, "File delete error"))
    /\ UNCHANGED <<allow_register, users, files, draws, uploaded, served, incremented, maxInFlight>>

\* DELETE FROM files WHERE id = ?; then the file is returned.
DownloadDeleteRow(p) ==
    /\ pc[p] = "d_delrow"
    /\ \E ok \in Outcomes :
         LET uuid == loc[p].id
         IN /\ Spend(ok)
            /\ IF ok
               THEN /\ files' = DeleteRow(files, uuid)
                    /\ Return(p, DownloadOk(uuid, loc[p].file[1], loc[p].file_bytes))
                    /\ served' = [served EXCEPT ![uuid] = @ + 1]
               ELSE /\ files' = files
                    /\ Return(p, DownloadErr(uuid, 500, "Database delete error"))
                    /\ served' = served
    /\ UNCHANGED <<allow_register, users, blobs, draws, uploaded, incremented,
                   maxInFlight>>

\* ----------------------------------------------------------- register_user
\* A gate that lets every request through.
MutRegistrationClosed(allow) == FALSE

\* if !config.allow_register { return FORBIDDEN }
RegistrationClosed(allow) == ~allow

\* register_user with the given username and password headers, to its first
\* await: the gate, the two headers, the key draw.
RegisterRequest(p, user_hdr, pass_hdr) ==
    /\ CanStart(p)
    /\ CanDraw
    /\ IF RegistrationClosed(allow_register)
       THEN /\ Return(p, Resp("register", 403, "Registration is not allowed"))
            /\ draws' = draws
       ELSE IF user_hdr = None
       THEN /\ Return(p, Resp("register", 400, "Username header not supplied"))
            /\ draws' = draws
       ELSE IF pass_hdr = None
       THEN /\ Return(p, Resp("register", 400, "Password header not supplied"))
            /\ draws' = draws
       ELSE /\ Goto(p, "r_select", [NoLocals EXCEPT
                                      !.username = RequiredStr(user_hdr),
                                      !.password = RequiredStr(pass_hdr),
                                      !.key = UuidStr(draws + 1)])
            /\ draws' = draws + 1
    /\ UNCHANGED <<allow_register, users, files, blobs, uploaded, served, incremented,
                   faultsLeft, maxInFlight>>

RegisterStart(p) ==
    \E user_hdr \in UsernameHeaders, pass_hdr \in PasswordHeaders :
        RegisterRequest(p, user_hdr, pass_hdr)

\* SELECT * FROM users WHERE username = ? (fetch_one): Ok means the name is
\* taken; any Err, a failed query included, lets the registration go on.
RegisterSelect(p) ==
    /\ pc[p] = "r_select"
    /\ \E ok \in Outcomes :
         /\ Spend(ok)
         /\ IF ok /\ UsernameTaken(users, loc[p].username)
            THEN Return(p, Resp("register", 400, "User already exists"))
            ELSE Goto(p, "r_insert", loc[p])
    /\ UNCHANGED <<allow_register, users, files, blobs, draws, uploaded, served, incremented,
                   maxInFlight>>

\* INSERT INTO users (key, username, password): key is the primary key.
RegisterInsert(p) ==
    /\ pc[p] = "r_insert"
    /\ \E ok \in Outcomes :
         /\ Spend(ok)
         /\ IF ok /\ loc[p].key \notin DOMAIN users
            THEN /\ users' = users @@ (loc[p].key :>
                       [username |-> loc[p].username, password |-> loc[p].password])
                 /\ Return(p, RegisterOk(loc[p].key, loc[p].username))
            ELSE /\ users' = users
                 /\ Return(p, Resp("register", 500, "Database insert error"))
    /\ UNCHANGED <<allow_register, files, blobs, draws, uploaded, served, incremented, maxInFlight>>

\* ---------------------------------------------------------- specifications
Next ==
    \E p \in Procs :
        \/ UploadStart(p)
        \/ UploadAuth(p)
        \/ UploadMkdir(p)
        \/ UploadWrite(p)
        \/ UploadInsert(p)
        \/ DownloadStart(p)
        \/ DownloadSelect(p)
        \/ DownloadUpdate(p)
        \/ DownloadRead(p)
        \/ DownloadRemoveFile(p)
        \/ DownloadDeleteRow(p)
        \/ RegisterStart(p)
        \/ RegisterSelect(p)
        \/ RegisterInsert(p)

\* Concurrent requests, with injected database and filesystem failures.
Spec == Init /\ [][Next]_vars

\* Concurrent requests, every database and filesystem call succeeds.
InitConc == Started /\ faultsLeft = 0 /\ maxInFlight = NumProcs
SpecConc == InitConc /\ [][Next]_vars

\* One request at a time, every database and filesystem call succeeds.
InitSeq == Started /\ faultsLeft = 0 /\ maxInFlight = 1
SpecSeq == InitSeq /\ [][Next]_vars


\* ------------------------------------------------------------------ claims
DownloadPcs == {"d_select", "d_update", "d_read", "d_rmfile", "d_delrow"}
UploadPcs   == {"u_mkdir", "u_write", "u_insert"}

\* Tasks running download_file for id / running upload with id as the new id.
Consuming(id)  == {p \in Procs : pc[p] \in DownloadPcs /\ loc[p].id = id}
Uploading(id)  == {p \in Procs : pc[p] \in UploadPcs /\ loc[p].id = id}

\* Tasks inside the lookup .. delete sequence of download_file for id: the row
\* has been selected and the handler has not returned.
InSequence(id) == {p \in Consuming(id) : pc[p] # "d_select"}

\* The files that were uploaded with a download limit of at least 1.
Limited == {id \in DOMAIN uploaded : uploaded[id].download_limit >= 1}

\* C1 (SpecSeq: one request at a time, no I/O failure).  For a file uploaded
\* with download_limit = N >= 1 exactly the first N downloads succeed: never
\* more than N downloads return 200, and a download that fails has come after
\* N successes, is a 404, and leaves neither the blob nor the row behind.
C1_LimitEnforcement ==
    \A id \in Limited :
        /\ served[id] <= uploaded[id].download_limit
        /\ (last.op = "download" /\ last.uuid = id /\ last.status # 200)
              => /\ last.status = 404
                 /\ served[id] = uploaded[id].download_limit
                 /\ id \notin DOMAIN files
                 /\ id \notin DOMAIN blobs

\* C2 (SpecConc).  For a file with download_limit = 1, downloads whose steps
\* interleave in any order never give two 200 responses, and a download fails
\* only when another one has succeeded (never zero successes).
C2_ConcurrentExhaustion ==
    \A id \in DOMAIN uploaded :
        uploaded[id].download_limit = 1
            => /\ served[id] < 2
               /\ (last.op = "download" /\ last.uuid = id /\ last.status # 200)
                     => served[id] + Cardinality(Consuming(id)) >= 1

\* C3 (SpecConc).  Over the lifetime of a file with download_limit = N >= 1,
\* in every interleaving of downloads, at most N downloads return 200.
C3_AtMostLimitServed ==
    \A id \in Limited : ~(served[id] > uploaded[id].download_limit)

\* C4 (SpecConc).  Invariant I1: while the row of a file (download_limit >= 1)
\* exists, 0 <= download_count <= download_limit, also between the steps of
\* downloads in flight.
C4_CountWithinLimit ==
    \A id \in DOMAIN files :
        files[id].download_limit >= 1
            => /\ 0 <= files[id].download_count
               /\ files[id].download_count <= files[id].download_limit

\* C5 (SpecConc).  Invariant I2: with no download of a file in flight, a row
\* that exists (download_limit >= 1) has download_count < download_limit: the
\* download that reached the limit has removed the row and the blob.
C5_ExpiredIsGone ==
    \A id \in DOMAIN files :
        (files[id].download_limit >= 1 /\ Consuming(id) = {})
            => files[id].download_count < files[id].download_limit

\* C6 (Spec).  Invariant I3: with no upload and no download of an identifier
\* in flight, its blob exists if and only if its row exists, also after
\* requests that ended in an error.
C6_BlobIffRow ==
    \A id \in Uuids :
        (Consuming(id) = {} /\ Uploading(id) = {})
            => (id \in DOMAIN blobs <=> id \in DOMAIN files)

\* C7 (SpecConc).  No two downloads of the same identifier are inside the
\* lookup .. increment .. read .. delete sequence at the same time.
C7_MutualExclusion ==
    \A id \in Uuids : Cardinality(InSequence(id)) <= 1

\* C8 (Spec).  download_count of a row never decreases; a new row starts at 0;
\* and only the UPDATE step of download_file changes it.
C8_CountMonotone ==
    [][ /\ \A id \in DOMAIN files \cap DOMAIN files' :
             /\ files'[id].download_count >= files[id].download_count
             /\ files'[id].download_count # files[id].download_count
                   => \E p \in Procs : /\ pc[p] = "d_update" /\ pc'[p] = "d_read"
                                       /\ loc[p].id = id
        /\ \A id \in DOMAIN files' \ DOMAIN files :
             files'[id].download_count = 0 ]_vars

\* Witness of C8: a row whose counter has been incremented twice.
C8_Witness == \E id \in DOMAIN files : files[id].download_count >= 2

C10_NoKeyNoIO ==
    [][ \A p \in Procs :
          UploadRequest(p, None)
              => /\ last' = Resp("upload", 400, "Key header not supplied")
                 /\ pc'[p] = "idle"
                 /\ users' = users /\ files' = files /\ blobs' = blobs
                 /\ faultsLeft' = faultsLeft ]_vars

\* Witness of C10: an upload without key was refused while files were stored.
C10_Witness ==
    /\ last = Resp("upload", 400, "Key header not supplied")
    /\ DOMAIN files # {} /\ DOMAIN blobs # {}

\* The statuses of an authorization error (401 Unauthorized, 403 Forbidden),
\* as opposed to the 500 of a server-side failure.
AuthorizationStatuses == {401, 403}

\* The usernames of the users table.
Usernames(tbl) == {tbl[k].username : k \in DOMAIN tbl}

\* C11 (SpecConc).  An upload whose key matches no row of users is rejected
\* with an authorization error and writes nothing (no blob, no row of files),
\* so the owner of every row of files is a registered username.
C11_UnknownKeyRejected ==
    [][ /\ \A p \in Procs :
             (pc[p] = "u_auth" /\ pc'[p] # "u_auth" /\ loc[p].key \notin DOMAIN users)
                 => /\ pc'[p] = "idle"
                    /\ last'.op = "upload"
                    /\ last'.status \in AuthorizationStatuses
                    /\ files' = files /\ blobs' = blobs /\ users' = users
        /\ \A id \in DOMAIN files' : files'[id].owner \in Usernames(users') ]_vars

\* C12 (Spec).  When the INSERT INTO files of an upload fails after its blob
\* was written, the upload returns a persistence error and has removed that
\* blob before it returns: no blob without a row is left by the failed upload.
C12_FailedInsertRemovesBlob ==
    [][ \A p \in Procs :
          (pc[p] = "u_insert" /\ pc'[p] = "idle" /\ files' = files)
              => /\ last' = Resp("upload", 500, "Database insert error")
                 /\ loc[p].id \notin DOMAIN blobs' ]_vars

\* C13 (Spec).  With allow_register false every register call returns 403
\* Forbidden in its first step, whatever its username and password headers
\* (present or absent, new or already in users), and the users table is
\* neither queried nor changed.
C13_ClosedRegistration ==
    [][ ~allow_register
          => /\ users' = users
             /\ \A p \in Procs : pc'[p] \notin {"r_select", "r_insert"}
             /\ \A p \in Procs, user_hdr \in UsernameHeaders, pass_hdr \in PasswordHeaders :
                  RegisterRequest(p, user_hdr, pass_hdr)
                      => /\ last' = Resp("register", 403, "Registration is not allowed")
                         /\ pc'[p] = "idle"
                         /\ draws' = draws
                         /\ faultsLeft' = faultsLeft ]_vars

\* Witness of C13: a register call was refused while users holds alice, one
\* of the usernames a request can carry.
C13_Witness ==
    /\ ~allow_register
    /\ last = Resp("register", 403, "Registration is not allowed")
    /\ "alice" \in Usernames(users)

\* C14 (Spec).  With registration allowed, a register call whose username is
\* already in users ends at its lookup with the conflict response "User
\* already exists" and leaves users unchanged; a call that goes on to the
\* INSERT and succeeds adds exactly one row, with its own key and username.
C14_RegisterConflict ==
    [][ allow_register
          => \A p \in Procs :
               /\ (/\ pc[p] = "r_select" /\ pc'[p] # "r_select"
                   /\ UsernameTaken(users, loc[p].username))
                     => /\ pc'[p] = "idle"
                        /\ last' = Resp("register", 400, "User already exists")
                        /\ users' = users
               /\ (pc[p] = "r_insert" /\ pc'[p] = "idle" /\ last'.status = 200)
                     => /\ last' = RegisterOk(loc[p].key, loc[p].username)
                        /\ DOMAIN users' = DOMAIN users \cup {loc[p].key}
                        /\ loc[p].key \notin DOMAIN users
                        /\ users'[loc[p].key].username = loc[p].username
                        /\ \A k \in DOMAIN users : users'[k] = users[k] ]_vars

\* C15 (SpecConc).  Usernames are unique: in every reachable state, also after
\* register calls with the same username whose lookup and insert interleave
\* and after a register call whose lookup failed, no two rows of users have
\* the same username.
C15_UniqueUsernames ==
    \A k1, k2 \in DOMAIN users :
        users[k1].username = users[k2].username => k1 = k2

\* C16 (SpecSeq).  Every row that upload inserts has download_limit >= 1,
\* equal to 1 when the request has no download_limit header, whatever the
\* value of the header (0, negative and non-numeric included); and the
\* download_limit of a row that exists never changes.
C16_PositiveLimit ==
    [][ /\ \A p \in Procs, hdrs \in UploadRequests :
             (UploadInsertWith(p, hdrs) /\ loc[p].id \in DOMAIN files')
                 => /\ files'[loc[p].id].download_limit >= 1
                    /\ hdrs.download_limit = None
                          => files'[loc[p].id].download_limit = DefaultLimit
        /\ \A id \in DOMAIN files \cap DOMAIN files' :
             files'[id].download_limit = files[id].download_limit ]_vars

\* C17 (SpecSeq).  download_file evaluates the expiry condition on the
\* download_count it has just persisted: after its read, a call goes on to
\* delete the blob and the row if and only if the counter after its own
\* increment is >= download_limit.
C17_ExpiryOnIncremented ==
    [][ \A p \in Procs :
          (pc[p] = "d_read" /\ pc'[p] # "d_read" /\ loc[p].id \in DOMAIN files)
              => LET row == files[loc[p].id]
                 IN pc'[p] = "d_rmfile" <=> row.download_count >= row.download_limit ]_vars

\* Tasks of download_file for id that have gone on to the delete steps.
Deleting(id) == {p \in Consuming(id) : pc[p] \in {"d_rmfile", "d_delrow"}}

\* The responses of download_file to a failed filesystem call.
StorageErrors == {"File read error", "File delete error"}

\* C18 (SpecConc).  In every interleaving of downloads of one identifier at
\* most one call attempts to delete the blob and the row, no call that has
\* incremented the counter is about to read a blob another call has deleted,
\* and, with no injected I/O failure, no download ends in a storage error.
C18_SingleDeleter ==
    /\ \A id \in Uuids : Cardinality(Deleting(id)) <= 1
    /\ \A p \in Procs : pc[p] = "d_read" => loc[p].id \in DOMAIN blobs
    /\ ~(last.op = "download" /\ last.status = 500 /\ last.msg \in StorageErrors)

\* The await points of download_file after its UPDATE.
AfterUpdate == {"d_read", "d_rmfile", "d_delrow"}

C20_ReadBeforeDelete ==
    [][ \A p \in Procs :
          /\ (pc'[p] = "d_rmfile" /\ pc[p] # "d_rmfile") => pc[p] = "d_read"
          /\ pc'[p] \in {"d_rmfile", "d_delrow"}
                => loc'[p].file_bytes = uploaded[loc'[p].id].body
          /\ (pc[p] \in AfterUpdate /\ pc'[p] = "idle" /\ loc[p].exhausts)
                => last' = DownloadOk(loc[p].id, loc[p].file[1], uploaded[loc[p].id].body)
      ]_vars

\* C21 (Spec).  On expiry download_file removes the blob first and the row
\* second, and a failed remove_file returns before the DELETE: a task reaches
\* the DELETE only from a remove_file that left no blob, and no step of a
\* download produces a state in which the row of a file is absent while its
\* blob is present.
C21_BlobBeforeRow ==
    [][ \A p \in Procs :
          (pc[p] \in DownloadPcs /\ pc'[p] # pc[p])
              => /\ pc'[p] = "d_delrow"
                    => /\ pc[p] = "d_rmfile"
                       /\ loc[p].id \notin DOMAIN blobs'
                       /\ files' = files
                 /\ DOMAIN files' # DOMAIN files
                    => /\ pc[p] = "d_delrow"
                       /\ DOMAIN files' = DOMAIN files \ {loc[p].id}
                       /\ loc[p].id \notin DOMAIN blobs
                 /\ (pc[p] = "d_rmfile" /\ pc'[p] = "idle")
                    => /\ last' = DownloadErr(loc[p].id, 500, "File delete error")
                       /\ files' = files /\ blobs' = blobs
                 /\ \A id \in Uuids :
                      (id \notin DOMAIN files' /\ id \in DOMAIN blobs')
                          => (id \notin DOMAIN files /\ id \in DOMAIN blobs) ]_vars

\* Witness of C21: a download between its two deletes, the blob removed and
\* the row still there.
C21_Witness ==
    \E p \in Procs :
        /\ pc[p] = "d_delrow"
        /\ loc[p].id \in DOMAIN files
        /\ loc[p].id \notin DOMAIN blobs

\* C22 (Spec).  When the UPDATE of download_count fails, download_file
\* returns the persistence error "Database update error" with no bytes, and
\* download_count, the row and the blob are as before: the call reads no
\* blob and deletes nothing.
C22_FailedUpdateAborts ==
    [][ \A p \in Procs :
          (pc[p] = "d_update" /\ pc'[p] \notin {"d_update", "d_read"})
              => /\ pc'[p] = "idle"
                 /\ last'.op = "download" /\ last'.uuid = loc[p].id
                 /\ last'.status = 500 /\ last'.msg = "Database update error"
                 /\ last'.bytes = NoBytes
                 /\ files' = files /\ blobs' = blobs
                 /\ served' = served /\ incremented' = incremented ]_vars

\* Witness of C22: a download of a stored file, downloaded before, has
\* returned "Database update error".
C22_Witness ==
    /\ last.op = "download" /\ last.msg = "Database update error"
    /\ last.uuid \in DOMAIN files /\ last.uuid \in DOMAIN blobs
    /\ files[last.uuid].download_count >= 1
    /\ blobs[last.uuid] # NoBytes

\* The status of a NotFound result.
NotFoundStatus == 404

\* C23 (SpecConc).  A download ends NotFound and changes neither store both
\* when the blob of the identifier is missing and when the blob is present
\* but files has no row for the identifier.
C23_NotFoundBothWays ==
    [][ \A p \in Procs :
          /\ \A uuid \in Uuids :
               (DownloadRequest(p, uuid) /\ uuid \notin DOMAIN blobs)
                   => /\ pc'[p] = "idle"
                      /\ last'.op = "download" /\ last'.uuid = uuid
                      /\ last'.status = NotFoundStatus
                      /\ files' = files /\ blobs' = blobs
          /\ (/\ pc[p] = "d_select" /\ pc'[p] # "d_select"
              /\ loc[p].id \in DOMAIN blobs /\ loc[p].id \notin DOMAIN files)
                   => /\ pc'[p] = "idle"
                      /\ last'.op = "download" /\ last'.uuid = loc[p].id
                      /\ last'.status = NotFoundStatus
                      /\ files' = files /\ blobs' = blobs ]_vars

\* C24 (Spec).  Only download_file changes or removes an existing file: a
\* step that changes or removes the row or the blob of an identifier is a
\* step of a download of that identifier.  So upload and register_user leave
\* download_count, row and blob of every existing file as they are, and a
\* download of X leaves the rows and blobs of all other identifiers alone.
C24_OnlyDownloadTouches ==
    [][ \A id \in Uuids :
          (\/ id \in DOMAIN files /\ (id \notin DOMAIN files' \/ files'[id] # files[id])
           \/ id \in DOMAIN blobs /\ (id \notin DOMAIN blobs' \/ blobs'[id] # blobs[id]))
              => \E p \in Procs :
                   /\ pc[p] \in DownloadPcs /\ pc'[p] # pc[p]
                   /\ loc[p].id = id ]_vars

\* Witness of C24: an upload has stored a second file next to one that has
\* been downloaded.
C24_Witness ==
    /\ last.op = "upload" /\ last.status = 200
    /\ last.uuid \in DOMAIN files /\ last.uuid \in DOMAIN blobs
    /\ \E id \in DOMAIN files \cap DOMAIN blobs :
         id # last.uuid /\ files[id].download_count >= 1

====
